---- MODULE Spec2Model ----
(***************************************************************************)
(* Grid-X coordinator control plane: credit ledger (credit_manager.py),    *)
(* durable store (database.py), worker registry (workers.py), session      *)
(* handler (coordinator_websocket_FIXED.py), job submission and admin      *)
(* actions (main.py) and the dispatcher (coodinate2.py).                   *)
(*                                                                         *)
(* coordinator.scheduler (on_job_started, on_job_result, watchdog_loop,    *)
(* get_max_reserve's configuration) is imported by the sources but is not  *)
(* among them.  The status updates of job_started / job_result follow the  *)
(* inline handler of coodinate2.py and the store primitives of             *)
(* database.py; the ledger part of settlement, the watchdog and the        *)
(* restriction column follow the specification text.                       *)
(***************************************************************************)
EXTENDS Integers, Sequences, FiniteSets, TLC

\* ------------------------------------------------------------------ bounds
MaxJobs == 2
MaxClock == 1
MaxBalance == 200
MaxSettle == 2
MaxQueue == 3
MaxFrames == 3
MaxHellos == 2
MaxStales == 1
MaxCreated == 3

\* ---------------------------------------------------------------- universes
Users == {"alice", "bob"}
Submitters == {"bob"}
NoOwner == ""
Tokens == {"T1", "T2"}
NoToken == ""
WorkerIds == {"w1", "w2"}
NoWorker == ""
Conns == {"c1", "c2"}
NoConn == ""
ConnIndex == [c \in Conns |-> IF c = "c1" THEN 1 ELSE 2]
JobIds == 1..MaxJobs
NoJob == 0

\* ---------------------------------------------------------------- constants
DEFAULT_INITIAL_BALANCE == 100
COST_RATE == 5
COST_BASE == 0
REWARD_NUM == 4
REWARD_DEN == 5
Timeouts == {10}
Durations == {2}
ExitCodes == {0, 1}
Amounts == {-5, 0, 50, 100}
HTTP_OK == 200
HTTP_BAD_REQUEST == 400
HTTP_PAYMENT_REQUIRED == 402
HTTP_INTERNAL_ERROR == 500
\* Significant bits of the binary floating-point format of the REAL balance
\* column, scaled down from the 53 of an IEEE double: every integer below
\* 2^MantissaBits is exact, larger values are rounded.
MantissaBits == 7

\* ================================================================== ledger
\* user_credits table: rows = users having a row, bal = the balance column.
ensure_user(L, u, initial) ==
    IF u \in L.rows THEN L
    ELSE [rows |-> L.rows \cup {u}, bal |-> [L.bal EXCEPT ![u] = initial]]

\* Round-to-nearest, ties-to-even, of the result of REAL arithmetic.
RECURSIVE UlpOf(_)
UlpOf(x) == IF x < 2 ^ MantissaBits THEN 1 ELSE 2 * UlpOf(x \div 2)

RoundAbs(x) ==
    LET ulp == UlpOf(x)
        q == x \div ulp
        r == x % ulp
    IN  IF 2 * r < ulp THEN q * ulp
        ELSE IF 2 * r > ulp THEN (q + 1) * ulp
        ELSE IF q % 2 = 0 THEN q * ulp ELSE (q + 1) * ulp

RoundReal(x) == IF x < 0 THEN 0 - RoundAbs(0 - x) ELSE RoundAbs(x)

get_balance(L, u) == IF u \in L.rows THEN L.bal[u] ELSE 0

\* The UPDATE ... WHERE user_id=? AND balance>=? of deduct: rows it changes.
deduct_rowcount(L, u, amount) ==
    IF u \in L.rows /\ L.bal[u] >= amount THEN 1 ELSE 0

deduct_strict(L, u, amount) ==
    IF amount <= 0 THEN [ok |-> TRUE, L |-> L]
    ELSE IF u \in L.rows /\ L.bal[u] > amount
         THEN [ok |-> TRUE, L |-> [L EXCEPT !.bal[u] = RoundReal(@ - amount)]]
         ELSE [ok |-> FALSE, L |-> L]

deduct_unguarded(L, u, amount) ==
    IF amount <= 0 THEN [ok |-> TRUE, L |-> L]
    ELSE [ok |-> u \in L.rows,
          L |-> IF u \in L.rows
                THEN [L EXCEPT !.bal[u] = RoundReal(@ - amount)] ELSE L]

deduct(L, u, amount) ==
    IF amount <= 0 THEN [ok |-> TRUE, L |-> L]
    ELSE IF deduct_rowcount(L, u, amount) > 0
         THEN [ok |-> TRUE, L |-> [L EXCEPT !.bal[u] = RoundReal(@ - amount)]]
         ELSE [ok |-> FALSE, L |-> L]

credit(L, u, amount) ==
    IF amount <= 0 THEN L
    ELSE LET L1 == ensure_user(L, u, 0)
         IN  [L1 EXCEPT !.bal[u] = RoundReal(@ + amount)]

\* GET /credits: the balance the API reports for a user.
ReportedBalance(L, u) ==
    get_balance(ensure_user(L, u, DEFAULT_INITIAL_BALANCE), u)

get_max_reserve(timeout_seconds) == COST_RATE * timeout_seconds + COST_BASE

\* =================================================================== state
VARIABLES
    user_credits,   \* user_credits table: [rows, bal]
    user_auth,      \* user_auth table: user -> stored token (NoToken: no row)
    db_workers,     \* workers table: [rows: worker id -> row,
                    \*   hb: ids by last_heartbeat, most recent last]
    db_jobs,        \* jobs table: sequence of rows, job id = index
    job_queue,      \* scheduler job_queue (FIFO of job ids)
    workers_ws,     \* registry dict: [e: worker id -> entry,
                    \*   order: its keys in insertion order]
    conn,           \* per connection: transport and handler state
    disp,           \* the dispatch() run holding the lock, if any
    submit_wait,    \* submit requests suspended in "await dispatch()"
    clock,          \* now()
    dlog,           \* the last deduct calls since the last credit (history)
    sent,           \* job -> connection its assign_job went out on since its
                    \*   last enqueue, NoConn if none did (history)
    settled,        \* job -> [n: ledger settlements, refunded: total refunded
                    \*   to the submitter by them, rewards: reward credit
                    \*   calls] (history)
    session,        \* worker id -> connection of its last accepted hello,
                    \*   NoConn once that handler has exited (history)
    used,           \* [frames, hellos, stales]: frames handled, hellos accepted,
                    \* staleness thresholds passed
    selected,       \* the last get_idle_worker_id call: [exclude_owner,
                    \*   worker_id], NoSelection before the first
    wk,             \* the worker process: its TaskQueue (queue of tasks, active_tasks,
                    \*   completed_tasks, task status), the result monitors
                    \*   running, and the frames it has sent per job
    enq,            \* job ids in the order of their last enqueue (history)
    http            \* the last POST /jobs answered by a direct ledger-level
                    \*   call: [user, status], NoResponse before the first

vars == <<user_credits, user_auth, db_workers, db_jobs, job_queue,
          workers_ws, conn, disp, submit_wait, clock, dlog, sent, settled,
          session, used, selected, http, enq, wk>>

coordVars == <<user_auth, db_workers, workers_ws, conn, disp, clock>>

NoWorkerRow == [exists |-> FALSE, status |-> "offline", owner_id |-> NoOwner,
                auth_token |-> NoToken, restriction |-> "none"]
\* caps of a hello that carries none: {"cpu_cores": 1, "gpu_count": 0}
DefaultCaps == [cpu_cores |-> 1]
NoEntry == [ws |-> NoConn, status |-> "offline", owner_id |-> NoOwner,
            stale |-> FALSE, caps |-> DefaultCaps]
NewConn == [open |-> TRUE, pc |-> "recv", worker_id |-> NoWorker,
            close_code |-> 0, ack |-> NoWorker, auth_error |-> FALSE]
\* job_queue.put(j): j becomes the most recently enqueued job.
Enqueued(order, j) == SelectSeq(order, LAMBDA x : x # j) \o <<j>>

RECURSIVE EnqueuedAll(_, _)
EnqueuedAll(order, jobs) ==
    IF jobs = <<>> THEN order
    ELSE EnqueuedAll(Enqueued(order, Head(jobs)), Tail(jobs))

\* A worker process that has just connected: empty TaskQueue, no monitor.
\* None, where a Task is expected
NoTask ==
    [task_id |-> 0, priority |-> 0, status |-> "none", error |-> "",
     created_at |-> 0]

\* TaskQueue(max_queue_size), scaled down
max_queue_size == 3

NewWorker ==
    [queue |-> <<>>, active_tasks |-> <<>>, completed_tasks |-> <<>>,
     returned |-> NoTask, created |-> 0, monitors |-> {}, handling |-> 0,
     job_started |-> [j \in JobIds |-> 0], job_result |-> [j \in JobIds |-> 0]]

NoResponse == [user |-> NoOwner, status |-> 0]
NoSelection == [exclude_owner |-> NoOwner, worker_id |-> NoWorker]

DispIdle == [pc |-> "idle", caller |-> NoConn, job |-> NoJob,
             worker |-> NoWorker]

\* Everything but the ledger and the registry: empty tables, empty queue,
\* no session yet.
InitOther ==
    /\ user_auth = [u \in Users |-> NoToken]
    /\ db_workers = [rows |-> [w \in WorkerIds |-> NoWorkerRow], hb |-> <<>>]
    /\ db_jobs = <<>>
    /\ job_queue = <<>>
    /\ conn = [c \in Conns |-> NewConn]
    /\ disp = DispIdle
    /\ submit_wait = 0
    /\ clock = 0
    /\ dlog = <<>>
    /\ sent = [j \in JobIds |-> NoConn]
    /\ settled = [j \in JobIds |-> [n |-> 0, rewards |-> 0, refunded |-> 0]]
    /\ session = [w \in WorkerIds |-> NoConn]
    /\ used = [frames |-> 0, hellos |-> 0, stales |-> 0]
    /\ selected = NoSelection
    /\ http = NoResponse
    /\ enq = <<>>
    /\ wk = NewWorker

Init ==
    /\ user_credits = [rows |-> {}, bal |-> [u \in Users |-> 0]]
    /\ workers_ws = [e |-> [w \in WorkerIds |-> NoEntry], order |-> <<>>]
    /\ InitOther

\* ------------------------------------------------------------ sequences
RECURSIVE Without(_, _)
Without(s, x) ==
    IF s = <<>> THEN <<>>
    ELSE IF Head(s) = x THEN Without(Tail(s), x)
    ELSE <<Head(s)>> \o Without(Tail(s), x)

InSeq(s, x) == \E i \in 1..Len(s) : s[i] = x

\* ------------------------------------------------------------- jobs table
JobExists(j) == j \in 1..Len(db_jobs)

db_create_job(tbl, user_id, reserved_cost) ==
    Append(tbl, [user_id |-> user_id, status |-> "queued",
                 worker_id |-> NoWorker, reserved |-> reserved_cost,
                 completed_at |-> -1])

db_set_job_assigned(tbl, j, w) ==
    IF j \in 1..Len(tbl)
    THEN [tbl EXCEPT ![j].status = "assigned", ![j].worker_id = w]
    ELSE tbl

db_set_job_running(tbl, j) ==
    IF j \in 1..Len(tbl) THEN [tbl EXCEPT ![j].status = "running"] ELSE tbl

db_set_job_completed(tbl, j, exit_code, t) ==
    IF j \in 1..Len(tbl)
    THEN [tbl EXCEPT ![j].status =
                         IF exit_code = 0 THEN "completed" ELSE "failed",
                     ![j].completed_at = t]
    ELSE tbl

db_requeue_job(tbl, j) ==
    [tbl EXCEPT ![j].status = "queued", ![j].worker_id = NoWorker]

\* ---------------------------------------------------------- workers table
\* last_heartbeat := now().  hb orders the rows db_get_worker_by_auth can
\* return, those with an owner and a token.
Touch(rows, hb, w) ==
    IF rows[w].owner_id # NoOwner /\ rows[w].auth_token # NoToken
    THEN Without(hb, w) \o <<w>>
    ELSE Without(hb, w)

db_upsert_worker(W, w, status, owner_id, auth_token) ==
    LET rows == [W.rows EXCEPT ![w] =
                    [exists |-> TRUE, status |-> status, owner_id |-> owner_id,
                     auth_token |-> auth_token, restriction |-> @.restriction]]
    IN  [rows |-> rows, hb |-> Touch(rows, W.hb, w)]

db_set_worker_status(W, w, status) ==
    IF W.rows[w].exists
    THEN [rows |-> [W.rows EXCEPT ![w].status = status],
          hb |-> Touch(W.rows, W.hb, w)]
    ELSE W

db_set_worker_offline(W, w) == db_set_worker_status(W, w, "offline")

db_set_worker_restriction(W, w, r) ==
    IF W.rows[w].exists THEN [W EXCEPT !.rows[w].restriction = r] ELSE W

RECURSIVE LastMatching(_, _, _, _)
LastMatching(rows, hb, owner_id, auth_token) ==
    IF hb = <<>> THEN NoWorker
    ELSE LET w == hb[Len(hb)]
         IN  IF rows[w].owner_id = owner_id /\ rows[w].auth_token = auth_token
             THEN w
             ELSE LastMatching(rows, SubSeq(hb, 1, Len(hb) - 1),
                               owner_id, auth_token)

\* SELECT ... WHERE owner_id=? AND auth_token=? ORDER BY last_heartbeat DESC
db_get_worker_by_auth(W, owner_id, auth_token) ==
    LastMatching(W.rows, W.hb, owner_id, auth_token)

\* -------------------------------------------------------- user_auth table
db_verify_user_auth(A, user_id, auth_token) ==
    A[user_id] # NoToken /\ A[user_id] = auth_token

db_register_user(A, user_id, auth_token) == [A EXCEPT ![user_id] = auth_token]

\* ----------------------------------------------------- registry (workers.py)
Registered(w) == InSeq(workers_ws.order, w)

register_worker_ws(R, w, ws, caps, owner_id) ==
    [e |-> [R.e EXCEPT ![w] = [ws |-> ws, status |-> "idle",
                               owner_id |-> owner_id, stale |-> FALSE,
                               caps |-> caps]],
     order |-> IF InSeq(R.order, w) THEN R.order ELSE Append(R.order, w)]

unregister_worker_ws(R, w) ==
    [e |-> [R.e EXCEPT ![w] = NoEntry], order |-> Without(R.order, w)]

update_worker_last_seen_never(R, w) == R

update_worker_last_seen(R, w) ==
    IF InSeq(R.order, w) THEN [R EXCEPT !.e[w].stale = FALSE] ELSE R

set_worker_idle(R, w) ==
    IF InSeq(R.order, w)
    THEN [R EXCEPT !.e[w].status = "idle", !.e[w].stale = FALSE]
    ELSE R


\* get_idle_worker_id: first idle worker of the first non-empty bucket,
\* others, then the coordinator's, then the submitter's own.
COORDINATOR_OWNER == "coordinator"

\* can_execute = caps.get("can_execute", True)
can_execute(caps) ==
    IF "can_execute" \in DOMAIN caps THEN caps.can_execute ELSE TRUE

RECURSIVE Bucket(_, _, _, _)
Bucket(order, e, exclude_owner, b) ==
    IF order = <<>> THEN <<>>
    ELSE LET w == Head(order)
             owner == e[w].owner_id
             class == IF owner # NoOwner /\ owner = exclude_owner THEN "owner"
                      ELSE IF owner # NoOwner /\ owner = COORDINATOR_OWNER
                           THEN "coordinator"
                      ELSE "other"
             rest == Bucket(Tail(order), e, exclude_owner, b)
         IN  IF e[w].status = "idle" /\ can_execute(e[w].caps) /\ class = b
             THEN <<w>> \o rest ELSE rest

\* get_idle_worker_id trying the submitter's own workers first.
get_idle_worker_id_own_first(R, exclude_owner) ==
    LET other_workers == Bucket(R.order, R.e, exclude_owner, "other")
        coordinator_workers == Bucket(R.order, R.e, exclude_owner, "coordinator")
        owner_workers == Bucket(R.order, R.e, exclude_owner, "owner")
    IN  IF owner_workers # <<>> THEN Head(owner_workers)
        ELSE IF other_workers # <<>> THEN Head(other_workers)
        ELSE IF coordinator_workers # <<>> THEN Head(coordinator_workers)
        ELSE NoWorker

get_idle_worker_id(R, exclude_owner) ==
    LET other_workers == Bucket(R.order, R.e, exclude_owner, "other")
        coordinator_workers == Bucket(R.order, R.e, exclude_owner, "coordinator")
        owner_workers == Bucket(R.order, R.e, exclude_owner, "owner")
    IN  IF other_workers # <<>> THEN Head(other_workers)
        ELSE IF coordinator_workers # <<>> THEN Head(coordinator_workers)
        ELSE IF owner_workers # <<>> THEN Head(owner_workers)
        ELSE NoWorker

\* ------------------------------------------------------------- dispatch
\* dispatch() holds the lock from entry to return, also across ws.send.
LockFree == disp.pc = "idle"

RECURSIVE FirstIdleIn(_, _)
FirstIdleIn(order, e) ==
    IF order = <<>> THEN NoWorker
    ELSE IF e[Head(order)].status = "idle" THEN Head(order)
    ELSE FirstIdleIn(Tail(order), e)

\* "for wid, w in workers_ws.items(): if w['status'] == 'idle': ... break"
FirstIdle(R) == FirstIdleIn(R.order, R.e)

\* "job_id = await job_queue.get(); if not job_row: continue"
RECURSIVE DropMissing(_, _)
DropMissing(q, tbl) ==
    IF q = <<>> THEN <<>>
    ELSE IF Head(q) \in 1..Len(tbl) THEN q
    ELSE DropMissing(Tail(q), tbl)

\* The caller of dispatch() resumes: a session handler reads its next frame,
\* a submit request returns its response.
DispatchReturn(Cn, SW, caller) ==
    IF caller = "submit"
    THEN conn' = Cn /\ submit_wait' = SW - 1
    ELSE conn' = [Cn EXCEPT ![caller].pc = "recv"] /\ submit_wait' = SW

\* The loop of dispatch(), from the top of an iteration to its next
\* suspension (the ws.send of an assign_job) or to its return.  R, Wk, J, Q,
\* Cn, SW: registry, workers table, jobs table, queue, connections and
\* waiting submits as the caller left them.
dispatch(R, Wk, J, Q, Cn, SW, caller) ==
    LET idle == FirstIdle(R)
        q == IF Q # <<>> /\ idle # NoWorker THEN DropMissing(Q, J) ELSE Q
    IN  IF Q = <<>> \/ idle = NoWorker \/ q = <<>>
        THEN /\ workers_ws' = R
             /\ db_workers' = Wk
             /\ db_jobs' = J
             /\ job_queue' = q
             /\ disp' = DispIdle
             /\ DispatchReturn(Cn, SW, caller)
        ELSE /\ workers_ws' = [R EXCEPT !.e[idle].status = "busy"]
             /\ db_workers' = db_set_worker_status(Wk, idle, "busy")
             /\ db_jobs' = db_set_job_assigned(J, Head(q), idle)
             /\ job_queue' = Tail(q)
             /\ disp' = [pc |-> "send", caller |-> caller, job |-> Head(q),
                         worker |-> idle]
             /\ conn' = Cn
             /\ submit_wait' = SW

Waiting(caller) ==
    IF caller = "submit" THEN submit_wait > 0 ELSE conn[caller].pc = "dispatch"

\* A caller suspended in "await dispatch()" gets the lock.
DispatchEnter == \E caller \in Conns \cup {"submit"} :
    /\ LockFree
    /\ Waiting(caller)
    /\ dispatch(workers_ws, db_workers, db_jobs, job_queue, conn, submit_wait,
                caller)
    /\ UNCHANGED <<user_credits, user_auth, clock, dlog, http, sent, settled, wk, enq, selected,
                   session, used>>

SendTarget == workers_ws.e[disp.worker].ws

\* "await ws.send(json.dumps(job_msg))" succeeded; the loop goes on.
DispatchSent ==
    /\ disp.pc = "send"
    /\ conn[SendTarget].open
    /\ sent' = [sent EXCEPT ![disp.job] = SendTarget]
    /\ dispatch(workers_ws, db_workers, db_jobs, job_queue, conn,
                submit_wait, disp.caller)
    /\ UNCHANGED <<user_credits, user_auth, clock, dlog, http, settled, wk, enq, selected, session, used>>

\* "except Exception: revert if send fails ... await job_queue.put(job_id);
\* return"
DispatchSendFailed ==
    /\ disp.pc = "send"
    /\ ~conn[SendTarget].open
    /\ workers_ws' = [workers_ws EXCEPT !.e[disp.worker].status = "idle"]
    /\ db_workers' = db_set_worker_status(db_workers, disp.worker, "idle")
    /\ db_jobs' = db_requeue_job(db_jobs, disp.job)
    /\ job_queue' = Append(job_queue, disp.job)
    /\ Len(job_queue') <= MaxQueue
    /\ sent' = [sent EXCEPT ![disp.job] = NoConn]
    /\ enq' = Enqueued(enq, disp.job)
    /\ disp' = DispIdle
    /\ DispatchReturn(conn, submit_wait, disp.caller)
    /\ UNCHANGED <<user_credits, user_auth, clock, dlog, http, settled, wk, selected, session, used>>

\* --------------------------------------------------------------- submit
\* POST /jobs: reserve, create the job, enqueue, then "await dispatch()",
\* which runs at once when the lock is free and waits for it otherwise.
SubmitRejected_after_create(u, t) ==
    LET reserved == get_max_reserve(t)
        L1 == ensure_user(user_credits, u, DEFAULT_INITIAL_BALANCE)
    IN  /\ get_balance(L1, u) < reserved \/ ~deduct(L1, u, reserved).ok
        /\ user_credits' = L1
        /\ db_jobs' = IF Len(db_jobs) < MaxJobs
                      THEN db_create_job(db_jobs, u, reserved) ELSE db_jobs
        /\ UNCHANGED <<user_auth, db_workers, job_queue, workers_ws,
                       conn, disp, submit_wait, clock, sent, settled, wk, enq, selected, session, used>>

SubmitRejected(u, t) ==
    LET reserved == get_max_reserve(t)
        L1 == ensure_user(user_credits, u, DEFAULT_INITIAL_BALANCE)
    IN  /\ get_balance(L1, u) < reserved \/ ~deduct(L1, u, reserved).ok
        /\ user_credits' = L1
        /\ UNCHANGED <<user_auth, db_workers, db_jobs, job_queue, workers_ws,
                       conn, disp, submit_wait, clock, sent, settled, wk, enq, selected, session, used>>

SubmitAccepted(u, t) ==
    LET reserved == get_max_reserve(t)
        L1 == ensure_user(user_credits, u, DEFAULT_INITIAL_BALANCE)
        d == deduct(L1, u, reserved)
        J == db_create_job(db_jobs, u, reserved)
        Q == Append(job_queue, Len(db_jobs) + 1)
    IN  /\ Len(db_jobs) < MaxJobs
        /\ ~(get_balance(L1, u) < reserved)
        /\ d.ok
        /\ user_credits' = d.L
        /\ IF LockFree
           THEN dispatch(workers_ws, db_workers, J, Q, conn, submit_wait + 1,
                         "submit")
           ELSE /\ db_jobs' = J
                /\ job_queue' = Q
                /\ submit_wait' = submit_wait + 1
                /\ UNCHANGED <<db_workers, workers_ws, conn, disp>>
        /\ enq' = Enqueued(enq, Len(db_jobs) + 1)
        /\ UNCHANGED <<user_auth, clock, sent, settled, wk, selected, session, used>>

\* The except branch: the store write of db_create_job raises after the
\* reserve was debited; the reserve is credited back and the request ends
\* with HTTP_INTERNAL_ERROR.
SubmitFailed(u, t) ==
    LET reserved == get_max_reserve(t)
        L1 == ensure_user(user_credits, u, DEFAULT_INITIAL_BALANCE)
        d == deduct(L1, u, reserved)
    IN  /\ ~(get_balance(L1, u) < reserved)
        /\ d.ok
        /\ user_credits' = credit(d.L, u, reserved)
        /\ UNCHANGED <<user_auth, db_workers, db_jobs, job_queue, workers_ws,
                       conn, disp, submit_wait, clock, sent, settled, wk, enq, selected,
                       session, used>>

submit_job(u, t) ==
    SubmitRejected(u, t) \/ SubmitAccepted(u, t) \/ SubmitFailed(u, t)

Submit == \E u \in Submitters, t \in Timeouts : submit_job(u, t) /\ UNCHANGED <<dlog, http>>

\* --------------------------------------------------------- session handler
Rejected == "REJECTED"
Owners == {"alice", NoOwner}
HelloTokens == Tokens \cup {NoToken}
HelloFrames == {<<"w1", "alice", "T1">>, <<"w2", NoOwner, NoToken>>}

\* The caps a hello carries are those of the machine sending it
\* (caps["can_execute"] = docker_manager.available): w1 can run containers,
\* w2 cannot.
HelloCaps == [w \in WorkerIds |-> [cpu_cores |-> 1, can_execute |-> w = "w1"]]

\* hello_worker_id without the wrong-password branch: a hello whose token
\* does not verify is taken for a brand new user.
hello_worker_id_unchecked(incoming_worker_id, owner_id, auth_token) ==
    IF auth_token # NoToken /\ owner_id # NoOwner
    THEN IF db_verify_user_auth(user_auth, owner_id, auth_token)
         THEN LET existing_worker ==
                      db_get_worker_by_auth(db_workers, owner_id, auth_token)
              IN  IF existing_worker # NoWorker THEN existing_worker
                  ELSE incoming_worker_id
         ELSE incoming_worker_id
    ELSE incoming_worker_id

\* hello_worker_id that never looks for an existing worker of the owner.
hello_worker_id_incoming(incoming_worker_id, owner_id, auth_token) ==
    IF auth_token # NoToken /\ owner_id # NoOwner
    THEN IF db_verify_user_auth(user_auth, owner_id, auth_token)
         THEN incoming_worker_id
         ELSE IF user_auth[owner_id] # NoToken THEN Rejected
              ELSE incoming_worker_id
    ELSE incoming_worker_id

\* The worker id a hello is registered under, or Rejected.
hello_worker_id(incoming_worker_id, owner_id, auth_token) ==
    IF auth_token # NoToken /\ owner_id # NoOwner
    THEN IF db_verify_user_auth(user_auth, owner_id, auth_token)
         THEN LET existing_worker ==
                      db_get_worker_by_auth(db_workers, owner_id, auth_token)
              IN  IF existing_worker # NoWorker THEN existing_worker
                  ELSE incoming_worker_id
         ELSE IF user_auth[owner_id] # NoToken THEN Rejected
              ELSE incoming_worker_id
    ELSE incoming_worker_id

\* Connections are interchangeable: a first hello comes on the lowest
\* connection that has had none.
NextConn(c) ==
    \/ conn[c].worker_id # NoWorker
    \/ \A c2 \in Conns : conn[c2].worker_id = NoWorker /\ conn[c2].open
                             /\ conn[c2].pc = "recv" => ConnIndex[c] <= ConnIndex[c2]

\* auth_error, close(4401), return: the handler leaves its loop.
HelloRejected(c, w, o, t) ==
    /\ conn[c].open /\ conn[c].pc = "recv"
    /\ NextConn(c)
    /\ hello_worker_id(w, o, t) = Rejected
    /\ conn' = [conn EXCEPT ![c].auth_error = TRUE, ![c].open = FALSE,
                            ![c].close_code = 4401, ![c].pc = "exiting"]
    /\ UNCHANGED <<user_credits, user_auth, db_workers, db_jobs, job_queue,
                   workers_ws, disp, submit_wait, clock, dlog, http, sent, settled, wk, enq, selected,
                   session, used>>

\* register under the lock, upsert the row, hello_ack, then await dispatch().
HelloAccepted(c, w, o, t) ==
    LET worker_id == hello_worker_id(w, o, t)
    IN  /\ conn[c].open /\ conn[c].pc = "recv"
        /\ NextConn(c)
        /\ LockFree
        /\ worker_id # Rejected
        /\ workers_ws' = register_worker_ws(workers_ws, worker_id, c,
                                             HelloCaps[w], o)
        /\ db_workers' = db_upsert_worker(db_workers, worker_id, "idle", o, t)
        /\ user_auth' = IF o # NoOwner /\ t # NoToken
                        THEN db_register_user(user_auth, o, t)
                        ELSE user_auth
        /\ conn' = [conn EXCEPT ![c].worker_id = worker_id,
                                ![c].ack = worker_id, ![c].pc = "dispatch"]
        /\ session' = [session EXCEPT ![worker_id] = c]
        /\ used.hellos < MaxHellos
        /\ used' = [used EXCEPT !.hellos = @ + 1]
        /\ UNCHANGED <<user_credits, db_jobs, job_queue, disp, submit_wait,
                       clock, dlog, http, sent, settled, wk, enq, selected>>

HandleHello(c, w, o, t) == HelloRejected(c, w, o, t) \/ HelloAccepted(c, w, o, t)

\* hello frames of alice's worker w1 and of the unauthenticated worker w2;
\* none of them is rejected.
Hello == \E c \in Conns, h \in HelloFrames : HelloAccepted(c, h[1], h[2], h[3])

\* hello frames with any owner and token
HelloAny == \E c \in Conns, w \in WorkerIds, o \in Owners, t \in HelloTokens :
    HandleHello(c, w, o, t)

\* Every frame but hello, of a handler that has a worker_id: last_seen is
\* refreshed and the row's status rewritten from the registry.
FrameReady(c) ==
    /\ conn[c].open /\ conn[c].pc = "recv"
    /\ conn[c].worker_id # NoWorker
    /\ LockFree
    /\ used.frames < MaxFrames
    /\ used' = [used EXCEPT !.frames = @ + 1]

SeenRegistry(c) == update_worker_last_seen(workers_ws, conn[c].worker_id)

SeenStore(c) ==
    LET worker_id == conn[c].worker_id
        wstatus == IF Registered(worker_id) THEN workers_ws.e[worker_id].status
                   ELSE "idle"
    IN  db_set_worker_status(db_workers, worker_id, wstatus)

FrameHb(c) ==
    /\ FrameReady(c)
    /\ workers_ws' = SeenRegistry(c)
    /\ db_workers' = SeenStore(c)
    /\ UNCHANGED <<user_credits, user_auth, db_jobs, job_queue, conn, disp,
                   submit_wait, clock, dlog, http, sent, settled, wk, enq, selected, session>>

on_job_started(tbl, job_id) == db_set_job_running(tbl, job_id)

FrameJobStarted(c, j) ==
    /\ FrameReady(c)
    /\ JobExists(j)
    /\ workers_ws' = SeenRegistry(c)
    /\ db_workers' = SeenStore(c)
    /\ db_jobs' = on_job_started(db_jobs, j)
    /\ UNCHANGED <<user_credits, user_auth, job_queue, conn, disp,
                   submit_wait, clock, dlog, http, sent, settled, wk, enq, selected, session>>

\* Settlement (ledger part): time cost clamped to [0, reserved], surplus back
\* to the submitter, the reward fraction to the executing worker's owner;
\* skipped for a job the store already shows terminal.
Terminal(status) == status \in {"completed", "failed"}

Min(a, b) == IF a < b THEN a ELSE b
Max(a, b) == IF a > b THEN a ELSE b

time_cost(reserved, duration) ==
    Min(Max(COST_RATE * duration + COST_BASE, 0), reserved)

worker_reward(cost) == (REWARD_NUM * cost) \div REWARD_DEN

settle(L, job, owner, duration) ==
    LET cost == time_cost(job.reserved, duration)
        L1 == credit(L, job.user_id, job.reserved - cost)
    IN  IF owner # NoOwner THEN credit(L1, owner, worker_reward(cost)) ELSE L1

FrameJobResult(c, j, exit_code, duration) ==
    LET worker_id == conn[c].worker_id
        W1 == SeenStore(c)
        owner == W1.rows[worker_id].owner_id
        settles == ~Terminal(db_jobs[j].status)
        L == IF settles THEN settle(user_credits, db_jobs[j], owner, duration)
             ELSE user_credits
    IN  /\ FrameReady(c)
        /\ JobExists(j)
        /\ settles => settled[j].n < MaxSettle
        /\ \A u \in Users : L.bal[u] <= MaxBalance
        /\ user_credits' = L
        /\ settled' = IF settles
                      THEN [settled EXCEPT ![j].n = @ + 1,
                               ![j].rewards = IF owner # NoOwner THEN @ + 1 ELSE @,
                               ![j].refunded = @ + (db_jobs[j].reserved
                                   - time_cost(db_jobs[j].reserved, duration))]
                      ELSE settled
        /\ dispatch(set_worker_idle(SeenRegistry(c), worker_id),
                    db_set_worker_status(W1, worker_id, "idle"),
                    db_set_job_completed(db_jobs, j, exit_code, clock),
                    job_queue, [conn EXCEPT ![c].pc = "dispatch"],
                    submit_wait, c)
        /\ UNCHANGED <<user_auth, clock, dlog, http, sent, session, selected, enq, wk>>

Frame == \E c \in Conns, j \in JobIds :
    \/ FrameHb(c)
    \/ FrameJobStarted(c, j)
    \/ \E exit_code \in ExitCodes, duration \in Durations :
           FrameJobResult(c, j, exit_code, duration)

\* The peer of a session closes the connection, or it drops.
PeerClose == \E c \in Conns :
    /\ conn[c].open
    /\ conn[c].worker_id # NoWorker
    /\ conn' = [conn EXCEPT ![c].open = FALSE]
    /\ UNCHANGED <<user_credits, user_auth, db_workers, db_jobs, job_queue,
                   workers_ws, disp, submit_wait, clock, dlog, http, sent, settled, wk, enq, selected,
                   session, used>>

\* finally: unregister_worker_ws(worker_id) under the lock, then
\* db_set_worker_offline(worker_id).
HandlerExit == \E c \in Conns :
    LET worker_id == conn[c].worker_id
    IN  /\ ~conn[c].open
        /\ conn[c].pc \in {"recv", "exiting"}
        /\ worker_id # NoWorker => LockFree
        /\ conn' = [conn EXCEPT ![c].pc = "done"]
        /\ IF worker_id # NoWorker
           THEN /\ workers_ws' = unregister_worker_ws(workers_ws, worker_id)
                /\ db_workers' = db_set_worker_offline(db_workers, worker_id)
           ELSE UNCHANGED <<workers_ws, db_workers>>
        /\ session' = [w \in WorkerIds |->
                           IF session[w] = c THEN NoConn ELSE session[w]]
        /\ UNCHANGED <<user_credits, user_auth, db_jobs, job_queue, disp,
                       submit_wait, clock, dlog, http, sent, settled, wk, enq, selected, used>>

\* ------------------------------------------------------------------ admin
\* disconnect_worker: under the lock close the session with 4400 and
\* unregister; then mark the row offline.  No entry: nothing happens.
disconnect_worker_conn(Cn, w) ==
    IF Registered(w)
    THEN LET ws == workers_ws.e[w].ws
         IN  IF Cn[ws].open
             THEN [Cn EXCEPT ![ws].open = FALSE, ![ws].close_code = 4400]
             ELSE Cn
    ELSE Cn

disconnect_worker_registry(R, w) ==
    IF Registered(w) THEN unregister_worker_ws(R, w) ELSE R

disconnect_worker_store(W, w) ==
    IF Registered(w) THEN db_set_worker_offline(W, w) ELSE W

\* _ensure_worker_exists_for_restriction: a connected worker without a row
\* gets one (status offline).
ensure_worker_row(W, w) ==
    IF W.rows[w].exists THEN W
    ELSE db_upsert_worker(W, w, "offline", workers_ws.e[w].owner_id, NoToken)

Restrictions == {"banned", "suspended"}

\* POST /admin/workers/{id}/ban and .../suspend
AdminRestrict == \E w \in WorkerIds, r \in Restrictions :
    /\ LockFree
    /\ db_workers.rows[w].exists \/ Registered(w)
    /\ db_workers.rows[w].restriction # r
    /\ conn' = disconnect_worker_conn(conn, w)
    /\ workers_ws' = disconnect_worker_registry(workers_ws, w)
    /\ db_workers' = db_set_worker_restriction(
                         disconnect_worker_store(ensure_worker_row(db_workers, w), w),
                         w, r)
    /\ UNCHANGED <<user_credits, user_auth, db_jobs, job_queue, disp,
                   submit_wait, clock, dlog, http, sent, settled, wk, enq, selected, session, used>>

\* ------------------------------------------------------------------- time
\* now() moves on; only completed_at records it.
Tick ==
    /\ clock < MaxClock
    /\ \E j \in 1..Len(db_jobs) : db_jobs[j].completed_at = clock
    /\ clock' = clock + 1
    /\ UNCHANGED <<user_credits, user_auth, db_workers, db_jobs, job_queue,
                   workers_ws, conn, disp, submit_wait, dlog, http, sent, settled, wk, enq, selected,
                   session, used>>

\* A session's last_seen falls behind the staleness threshold; the watchdog
\* looks at it for workers holding a job.
LastSeenStale == \E w \in WorkerIds :
    /\ Registered(w)
    /\ \E j \in 1..Len(db_jobs) : /\ db_jobs[j].worker_id = w
                                  /\ db_jobs[j].status \in {"assigned", "running"}
    /\ ~workers_ws.e[w].stale
    /\ used.stales < MaxStales
    /\ used' = [used EXCEPT !.stales = @ + 1]
    /\ workers_ws' = [workers_ws EXCEPT !.e[w].stale = TRUE]
    /\ UNCHANGED <<user_credits, user_auth, db_workers, db_jobs, job_queue,
                   conn, disp, submit_wait, clock, dlog, http, sent, settled, wk, enq, selected,
                   session>>

\* --------------------------------------------------------------- watchdog
\* One pass: jobs assigned or running whose worker is gone from the registry
\* or stale go back to queued, worker id cleared, and into the queue; a busy
\* row of such a worker becomes idle; rows past the offline threshold (old:
\* rows without a fresh session, as every frame renews last_heartbeat) become
\* offline.
Lost(j) ==
    /\ db_jobs[j].status \in {"assigned", "running"}
    /\ \/ db_jobs[j].worker_id = NoWorker
       \/ ~Registered(db_jobs[j].worker_id)
       \/ workers_ws.e[db_jobs[j].worker_id].stale

LostJobs == {j \in 1..Len(db_jobs) : Lost(j)}

RECURSIVE Ascending(_)
Ascending(S) ==
    IF S = {} THEN <<>>
    ELSE LET m == CHOOSE x \in S : \A y \in S : x <= y
         IN  <<m>> \o Ascending(S \ {m})

RECURSIVE ReleaseWorkers(_, _)
ReleaseWorkers(W, jobs) ==
    IF jobs = <<>> THEN W
    ELSE LET w == db_jobs[Head(jobs)].worker_id
             W1 == IF w # NoWorker /\ W.rows[w].exists /\ W.rows[w].status = "busy"
                   THEN db_set_worker_status(W, w, "idle") ELSE W
         IN  ReleaseWorkers(W1, Tail(jobs))

RECURSIVE OfflineOld(_, _, _)
OfflineOld(W, ws, old) ==
    IF ws = <<>> THEN W
    ELSE LET w == Head(ws)
             W1 == IF w \in old /\ W.rows[w].status # "offline"
                   THEN db_set_worker_offline(W, w) ELSE W
         IN  OfflineOld(W1, Tail(ws), old)

MayBeOld(w) ==
    /\ db_workers.rows[w].exists
    /\ ~Registered(w) \/ workers_ws.e[w].stale

Watchdog == \E old \in SUBSET {w \in WorkerIds : MayBeOld(w)} :
    /\ LockFree
    /\ db_jobs' = [j \in 1..Len(db_jobs) |->
                      IF Lost(j) THEN db_requeue_job(db_jobs, j)[j]
                      ELSE db_jobs[j]]
    /\ job_queue' = job_queue \o Ascending(LostJobs)
    /\ Len(job_queue') <= MaxQueue
    /\ enq' = EnqueuedAll(enq, Ascending(LostJobs))
    /\ sent' = [j \in JobIds |-> IF j \in LostJobs THEN NoConn ELSE sent[j]]
    /\ db_workers' = OfflineOld(ReleaseWorkers(db_workers, Ascending(LostJobs)),
                                db_workers.hb, old)
    /\ UNCHANGED <<user_credits, user_auth, workers_ws, conn, disp,
                   submit_wait, clock, dlog, http, settled, wk, selected, session, used>>

\* =========================================================== specification
Next ==
    \/ Submit
    \/ Hello
    \/ Frame
    \/ PeerClose
    \/ HandlerExit
    \/ DispatchEnter
    \/ DispatchSent
    \/ DispatchSendFailed
    \/ Tick
    \/ Watchdog

Spec == Init /\ [][Next]_vars

\* Handshake and admin restriction, without job frames and time.
AuthNext ==
    \/ HelloAny
    \/ AdminRestrict
    \/ Submit
    \/ PeerClose
    \/ HandlerExit
    \/ DispatchEnter
    \/ DispatchSent
    \/ DispatchSendFailed

AuthSpec == Init /\ [][AuthNext]_vars

\* ----------------------------------------------------------- ledger calls
\* Direct calls of the credit_manager API, as tests/test_system.py makes.
Logged(log, L, u, amount, ok) ==
    (IF Len(log) = 2 THEN Tail(log) ELSE log)
    \o <<[user |-> u, amount |-> amount, ok |-> ok,
          before |-> get_balance(L, u)]>>

\* A row created by ensure_user is new funding: the history restarts.
LogBase(u) == IF u \in user_credits.rows THEN dlog ELSE <<>>

CallEnsureUser == \E u \in Users :
    /\ user_credits' = ensure_user(user_credits, u, DEFAULT_INITIAL_BALANCE)
    /\ dlog' = LogBase(u)
    /\ UNCHANGED <<coordVars, db_jobs, job_queue, submit_wait, sent, settled, wk, enq, selected,
                   session, used, http>>

\* deduct(u, a) called directly; its return value is the ok of the log entry.
DeductCall(u, a) ==
    LET d == deduct(user_credits, u, a)
    IN  /\ user_credits' = d.L
        /\ dlog' = Logged(dlog, user_credits, u, a, d.ok)
        /\ UNCHANGED <<coordVars, db_jobs, job_queue, submit_wait, sent, settled, wk, enq, selected,
                   session, used, http>>

CallDeduct == \E u \in Users, a \in Amounts : DeductCall(u, a)

CallCredit == \E u \in Users, a \in Amounts :
    /\ user_credits' = credit(user_credits, u, a)
    /\ user_credits' # user_credits
    /\ user_credits'.bal[u] <= MaxBalance
    /\ dlog' = <<>>
    /\ UNCHANGED <<coordVars, db_jobs, job_queue, submit_wait, sent, settled, wk, enq, selected,
                   session, used, http>>

\* POST /jobs called directly, with its response recorded.
PostJobsRejected(u, t) ==
    /\ SubmitRejected(u, t)
    /\ dlog' = LogBase(u)
    /\ http' = [user |-> u, status |-> HTTP_PAYMENT_REQUIRED]

PostJobsAccepted(u, t) ==
    /\ SubmitAccepted(u, t)
    /\ dlog' = Logged(LogBase(u),
                      ensure_user(user_credits, u, DEFAULT_INITIAL_BALANCE),
                      u, get_max_reserve(t), TRUE)
    /\ http' = [user |-> u, status |-> HTTP_OK]

PostJobsFailed(u, t) ==
    /\ SubmitFailed(u, t)
    /\ dlog' = <<>>
    /\ http' = [user |-> u, status |-> HTTP_INTERNAL_ERROR]

PostJobs(u, t) ==
    PostJobsRejected(u, t) \/ PostJobsAccepted(u, t) \/ PostJobsFailed(u, t)

CallSubmitRejected == \E u \in Submitters, t \in Timeouts : PostJobsRejected(u, t)

CallSubmitAccepted == \E u \in Submitters, t \in Timeouts : PostJobsAccepted(u, t)

CallSubmitFailed == \E u \in Submitters, t \in Timeouts : PostJobsFailed(u, t)

LedgerNext ==
    \/ CallEnsureUser \/ CallDeduct \/ CallCredit
    \/ CallSubmitRejected \/ CallSubmitAccepted \/ CallSubmitFailed

LedgerSpec == Init /\ [][LedgerNext]_vars

\* C1: no balance is ever negative, and of two deduct calls on one user (no
\* credit in between) whose amounts together exceed the balance before the
\* first, at most one succeeds.
C1_NoOverdraft ==
    /\ \A u \in Users : user_credits.bal[u] >= 0
    /\ (Len(dlog) = 2 /\ dlog[1].user = dlog[2].user
        /\ dlog[1].amount + dlog[2].amount > dlog[1].before)
       => ~(dlog[1].ok /\ dlog[2].ok)

C1_Witness ==
    /\ Len(dlog) = 2 /\ dlog[1].user = dlog[2].user
    /\ dlog[1].amount > 0 /\ dlog[2].amount > 0
    /\ dlog[1].amount <= dlog[1].before /\ dlog[2].amount <= dlog[1].before
    /\ dlog[1].amount + dlog[2].amount > dlog[1].before
    /\ dlog[1].ok /\ ~dlog[2].ok

\* ------------------------------------------------------ selection alone
\* get_idle_worker_id called on a registry of up to three sessions.
SelectWorkers == {"w1", "w2", "w3"}
SelectOwners == {"alice", "bob", COORDINATOR_OWNER, NoOwner}
SelectSubmitters == {"alice", COORDINATOR_OWNER}
CapsForms == {[cpu_cores |-> 1],
              [cpu_cores |-> 1, can_execute |-> TRUE],
              [cpu_cores |-> 1, can_execute |-> FALSE]}
SelectEntries == [ws : {"c1"}, status : {"idle", "busy"},
                  owner_id : SelectOwners, stale : {FALSE}, caps : CapsForms]
SelectOrders ==
    {o \in UNION {[1..n -> SelectWorkers] : n \in 0..Cardinality(SelectWorkers)} :
        \A i, k \in 1..Len(o) : i # k => o[i] # o[k]}

SelectInit ==
    /\ user_credits = [rows |-> {}, bal |-> [u \in Users |-> 0]]
    /\ \E order \in SelectOrders, e \in [SelectWorkers -> SelectEntries] :
           workers_ws = [e |-> [w \in SelectWorkers |->
                                   IF InSeq(order, w) THEN e[w] ELSE NoEntry],
                         order |-> order]
    /\ InitOther

CallSelect == \E exclude_owner \in SelectSubmitters :
    /\ selected' = [exclude_owner |-> exclude_owner,
                    worker_id |-> get_idle_worker_id(workers_ws, exclude_owner)]
    /\ UNCHANGED <<user_credits, user_auth, db_workers, db_jobs, job_queue,
                   workers_ws, conn, disp, submit_wait, clock, dlog, http, sent,
                   settled, wk, enq, session, used>>

SelectNext == CallSelect

SelectSpec == SelectInit /\ [][SelectNext]_vars

\* Sessions and admin actions alone: no job is ever submitted, so every
\* dispatch() returns on the empty queue.
SessionNext ==
    \/ HelloAny
    \/ AdminRestrict
    \/ PeerClose
    \/ HandlerExit
    \/ DispatchEnter

SessionSpec == Init /\ [][SessionNext]_vars

\* ================================================================== claims
JobRows == 1..Len(db_jobs)

Holds(w) ==
    {j \in JobRows : /\ db_jobs[j].status \in {"assigned", "running"}
                     /\ db_jobs[j].worker_id = w}

\* C2: every worker whose status is busy has exactly one job whose persisted
\* status is assigned or running and whose assigned worker id is that worker
\* (looked at between steps, when no dispatch is in progress).
C2_BusyHasOneJob ==
    LockFree =>
        \A w \in WorkerIds :
            Registered(w) /\ workers_ws.e[w].status = "busy"
                => Cardinality(Holds(w)) = 1

\* C3: when no dispatch is in progress, a job id is in the queue if and only
\* if the job's persisted status is queued and no assign_job has been sent
\* for it since it was last enqueued.
C3_QueueIffQueued ==
    LockFree =>
        \A j \in JobRows :
            InSeq(job_queue, j)
                <=> (db_jobs[j].status = "queued" /\ sent[j] = NoConn)

AllowedTransitions ==
    {<<"queued", "assigned">>, <<"assigned", "running">>,
     <<"assigned", "queued">>, <<"running", "queued">>,
     <<"assigned", "completed">>, <<"running", "completed">>,
     <<"assigned", "failed">>, <<"running", "failed">>}

\* C4: every change of a job's persisted status is one of queued->assigned,
\* assigned->running, assigned/running->queued, assigned/running->completed,
\* assigned/running->failed; a completed or failed job never changes status.
C4_Transitions ==
    [][\A j \in JobRows :
          db_jobs'[j].status # db_jobs[j].status
              => <<db_jobs[j].status, db_jobs'[j].status>> \in AllowedTransitions]_vars

StatusOf(exit_code) == IF exit_code = 0 THEN "completed" ELSE "failed"

\* C5: a job_result frame for a job that a job_result with the same exit
\* code has already made terminal leaves the job's status and completion
\* timestamp and every balance as they were.
C5_SecondResultNoEffect ==
    [][\A c \in Conns, j \in JobRows, exit_code \in ExitCodes,
          duration \in Durations :
          (/\ db_jobs[j].status = StatusOf(exit_code)
           /\ FrameJobResult(c, j, exit_code, duration))
              => /\ db_jobs'[j].status = db_jobs[j].status
                 /\ db_jobs'[j].completed_at = db_jobs[j].completed_at
                 /\ user_credits' = user_credits]_vars

\* C6: for every job that is completed or failed, the job has been settled
\* and no more than one reward credit has been issued for it (exactly one,
\* or none where the settling worker has no owner recorded).
C6_OneReward ==
    \A j \in JobRows :
        Terminal(db_jobs[j].status)
            => settled[j].n >= 1 /\ settled[j].rewards <= 1

\* C8: the registry entry of a worker id refers to the connection of the
\* last accepted hello for that id for as long as that connection is open.
C8_EntryIsLastSession ==
    \A w \in WorkerIds :
        (/\ session[w] # NoConn
         /\ conn[session[w]].open
         /\ conn[session[w]].worker_id = w)
            => Registered(w) /\ workers_ws.e[w].ws = session[w]

\* The session job j was sent on belonged to the job's worker and has ended
\* (connection closed, handler gone) without a job_result for j.
SessionClosed(j) ==
    /\ db_jobs[j].status \in {"assigned", "running"}
    /\ sent[j] # NoConn
    /\ conn[sent[j]].worker_id = db_jobs[j].worker_id
    /\ conn[sent[j]].pc = "done"

Requeued(j) ==
    /\ db_jobs'[j].status = "queued"
    /\ db_jobs'[j].worker_id = NoWorker
    /\ InSeq(job_queue', j)

\* C7: a watchdog pass that finds job j assigned to W, W's
\* session closed before any job_result, leaves j queued with no worker, in
\* the queue, and W offline in the store.
C7_ClosedSessionRecovered ==
    [][\A j \in JobRows :
          Watchdog /\ SessionClosed(j)
              => /\ Requeued(j)
                 /\ db_workers'.rows[db_jobs[j].worker_id].status = "offline"]_vars

Restricted(w) == db_workers.rows[w].restriction \in Restrictions

C10_RestrictedRefused ==
    [][\A c \in Conns, w \in WorkerIds, o \in Owners, t \in HelloTokens :
          (/\ hello_worker_id(w, o, t) # Rejected
           /\ Restricted(hello_worker_id(w, o, t))
           /\ HandleHello(c, w, o, t))
              => /\ ~conn'[c].open /\ conn'[c].close_code = 4400
                 /\ conn'[c].ack = conn[c].ack /\ conn'[c].pc # "dispatch"
                 /\ ~InSeq(workers_ws'.order, hello_worker_id(w, o, t))]_vars

\* C11: a worker whose restriction is banned or suspended is absent from the
\* registry after every step, and no assign_job goes out to it while the
\* restriction is set.
C11_RestrictedStaysOut ==
    [][\A w \in WorkerIds :
          db_workers'.rows[w].restriction \in Restrictions
              => /\ ~InSeq(workers_ws'.order, w)
                 /\ ~(Restricted(w) /\ disp.worker = w /\ DispatchSent)]_vars

\* Registered workers that are idle and can execute, with an owner in S.
EligibleOwnedBy(R, S) ==
    {w \in DOMAIN R.e : /\ InSeq(R.order, w)
                        /\ R.e[w].status = "idle"
                        /\ can_execute(R.e[w].caps)
                        /\ R.e[w].owner_id \in S}

\* The member of S that comes first in the registry's insertion order.
FirstInOrder(R, S) ==
    R.order[CHOOSE i \in 1..Len(R.order) :
                /\ R.order[i] \in S
                /\ \A k \in 1..(i - 1) : R.order[k] \notin S]

\* C12: get_idle_worker_id returns the first idle can_execute worker owned
\* by neither the submitter nor the coordinator owner; failing that the
\* first owned by the coordinator owner; failing that the first owned by the
\* submitter; and no worker only when there is none of the three.
C12_SelectEligible ==
    selected # NoSelection =>
        LET submitter == selected.exclude_owner
            a == EligibleOwnedBy(workers_ws,
                     (SelectOwners \ {submitter}) \ {COORDINATOR_OWNER})
            b == EligibleOwnedBy(workers_ws, {COORDINATOR_OWNER})
            c == EligibleOwnedBy(workers_ws, {submitter})
        IN  selected.worker_id =
                IF a # {} THEN FirstInOrder(workers_ws, a)
                ELSE IF b # {} THEN FirstInOrder(workers_ws, b)
                ELSE IF c # {} THEN FirstInOrder(workers_ws, c)
                ELSE NoWorker

C12_Witness ==
    /\ selected # NoSelection
    /\ selected.worker_id # NoWorker
    /\ workers_ws.e[selected.worker_id].owner_id = selected.exclude_owner
    /\ Len(workers_ws.order) = 3
    /\ workers_ws.order[1] # selected.worker_id
    /\ \E w \in SelectWorkers : ~can_execute(workers_ws.e[w].caps)

\* C13: whenever dispatch selects a worker for an assign_job, that worker's
\* registry status was idle (as found, or as its own job_result had just
\* set it in the same step), its caps allow execution and its restriction
\* is none.
C13_SelectedEligible ==
    [][(disp'.pc = "send" /\ disp' # disp) =>
          LET w == disp'.worker
          IN  /\ \/ workers_ws.e[w].status = "idle"
                 \/ \E c \in Conns, j \in JobIds, exit_code \in ExitCodes,
                       duration \in Durations :
                        /\ conn[c].worker_id = w
                        /\ FrameJobResult(c, j, exit_code, duration)
              /\ can_execute(workers_ws.e[w].caps)
              /\ db_workers.rows[w].restriction = "none"]_vars

\* C14: a POST /jobs whose reserve exceeds the submitter's balance is answered
\* with 402 and has no side effect: no job row is written, nothing is
\* enqueued, the dispatcher is not run, and every reported balance is the same.
C14_InsufficientNoEffect ==
    [][\A u \in Submitters, t \in Timeouts :
          (ReportedBalance(user_credits, u) < get_max_reserve(t) /\ PostJobs(u, t))
              => /\ http'.status = HTTP_PAYMENT_REQUIRED
                 /\ UNCHANGED <<db_jobs, job_queue, disp, submit_wait, sent,
                                workers_ws, db_workers, conn>>
                 /\ \A v \in Users : ReportedBalance(user_credits', v)
                                          = ReportedBalance(user_credits, v)]_vars

C14_Witness ==
    /\ http.status = HTTP_PAYMENT_REQUIRED
    /\ ReportedBalance(user_credits, http.user) < get_max_reserve(10)
    /\ Len(db_jobs) < MaxJobs

\* ------------------------------------------------- ledger on any balances
\* The ledger calls and POST /jobs started from any user_credits table whose
\* balances are values of the REAL column.
RealBalances == {0, 50, 100, 130, 308}
RealAmounts == {-5, 0, 1, 50}

RealLedgers ==
    {[rows |-> r, bal |-> [u \in Users |-> IF u \in r THEN b[u] ELSE 0]] :
        r \in SUBSET Users, b \in [Users -> RealBalances]}

RealInit ==
    /\ user_credits \in RealLedgers
    /\ workers_ws = [e |-> [w \in WorkerIds |-> NoEntry], order |-> <<>>]
    /\ InitOther

\* deduct(u, r) that succeeds followed by credit(u, r), as in the refund test.
DeductThenCredit(u, r) ==
    LET d == deduct(user_credits, u, r)
    IN  /\ d.ok
        /\ user_credits' = credit(d.L, u, r)
        /\ dlog' = <<>>
        /\ UNCHANGED <<coordVars, db_jobs, job_queue, submit_wait, sent,
                       settled, wk, enq, selected, session, used, http>>

RealRoundTrip == \E u \in Users, r \in RealAmounts : DeductThenCredit(u, r)

RealNext ==
    \/ RealRoundTrip
    \/ CallSubmitRejected \/ CallSubmitAccepted \/ CallSubmitFailed

RealSpec == RealInit /\ [][RealNext]_vars

\* C15: when job creation fails after the reserve was debited, the request
\* ends with 500 and the submitter's balance is exactly what it was before
\* the request.
C15_FailedCreationRestores ==
    [][\A u \in Submitters, t \in Timeouts :
          PostJobsFailed(u, t)
              => /\ http'.status = HTTP_INTERNAL_ERROR
                 /\ ReportedBalance(user_credits', u)
                        = ReportedBalance(user_credits, u)]_vars

\* C16: balances change only by the reserve debit, the refund of
\* reserved - time_cost at settlement, the reward credit and the full refund
\* after a failed creation; for one job the submitter is never refunded more
\* than the reserve that was debited for it (nor charged more than it).
C16_RefundWithinReserve ==
    \A j \in JobRows :
        /\ settled[j].refunded <= db_jobs[j].reserved
        /\ settled[j].refunded >= 0

LastDeduct(log) == log[Len(log)]

\* C17 (as stated): deduct(u, amount) returns true iff u had a balance row
\* and its balance was at least amount, for every amount and every user; when
\* it returns false no balance has changed.
C17_TrueIffRowAndFunds ==
    [][\A u \in Users, a \in Amounts :
          DeductCall(u, a)
              => /\ LastDeduct(dlog').ok
                        <=> (u \in user_credits.rows /\ user_credits.bal[u] >= a)
                 /\ ~LastDeduct(dlog').ok => user_credits' = user_credits]_vars

\* C17 (amended): deduct(u, amount) returns true iff amount is zero or
\* negative, or u had a balance row and its balance was at least amount; when
\* it returns false no balance has changed.
C17_TrueIffNonPositiveOrFunds ==
    [][\A u \in Users, a \in Amounts :
          DeductCall(u, a)
              => /\ LastDeduct(dlog').ok
                        <=> \/ a <= 0
                            \/ u \in user_credits.rows /\ user_credits.bal[u] >= a
                 /\ ~LastDeduct(dlog').ok => user_credits' = user_credits]_vars

C17_Witness ==
    /\ dlog # <<>>
    /\ LastDeduct(dlog).ok
    /\ LastDeduct(dlog).amount <= 0
    /\ LastDeduct(dlog).user \notin user_credits.rows
    /\ \E u \in user_credits.rows : user_credits.bal[u] < DEFAULT_INITIAL_BALANCE

\* C18: for every user u and amount r for which deduct(u, r) succeeds,
\* deduct(u, r) followed by credit(u, r) leaves u's balance equal to its
\* value before the deduct, and every other balance unchanged.
C18_DeductThenCreditRestores ==
    [][\A u \in Users, r \in RealAmounts :
          DeductThenCredit(u, r)
              => \A v \in Users :
                     get_balance(user_credits', v) = get_balance(user_credits, v)]_vars

\* The last ledger event of u was a successful deduct of its whole balance.
WholeBalanceReserved(u) ==
    /\ dlog # <<>>
    /\ LastDeduct(dlog).user = u
    /\ LastDeduct(dlog).ok
    /\ LastDeduct(dlog).amount > 0
    /\ LastDeduct(dlog).amount = LastDeduct(dlog).before

\* C19: a POST /jobs whose reserve equals the submitter's balance exactly is
\* accepted (where job creation does not fail) and leaves the balance at
\* zero; the next POST /jobs of that submitter with a positive reserve, with
\* no credit to it in between, is answered with 402.
C19_ExactBalanceAccepted ==
    [][\A u \in Submitters, t \in Timeouts :
          /\ (/\ ReportedBalance(user_credits, u) = get_max_reserve(t)
               /\ (PostJobsRejected(u, t) \/ PostJobsAccepted(u, t)))
                  => /\ http'.status = HTTP_OK
                     /\ Len(db_jobs') = Len(db_jobs) + 1
                     /\ ReportedBalance(user_credits', u) = 0
          /\ (/\ WholeBalanceReserved(u)
               /\ get_max_reserve(t) > 0
               /\ PostJobs(u, t))
                  => /\ http'.status = HTTP_PAYMENT_REQUIRED
                     /\ UNCHANGED <<db_jobs, job_queue>>
                     /\ ReportedBalance(user_credits', u) = 0]_vars

C19_Witness ==
    /\ http.status = HTTP_PAYMENT_REQUIRED
    /\ WholeBalanceReserved(http.user)
    /\ LastDeduct(dlog).amount = get_max_reserve(10)
    /\ Len(db_jobs) = 2
    /\ \A j \in 1..2 : db_jobs[j].user_id = http.user

\* a's last enqueue completed before b's.
EnqueuedBefore(a, b) ==
    \E i, k \in 1..Len(enq) : i < k /\ enq[i] = a /\ enq[k] = b

StillQueued(j) == InSeq(job_queue, j) /\ db_jobs[j].status = "queued"

\* C20: jobs are assigned in queue order whoever submitted them: when job a's
\* enqueue completed before job b's and neither was enqueued again since,
\* assign_job for b is not sent while a is still queued.
C20_QueueOrder ==
    [][\A a, b \in JobRows :
          (/\ EnqueuedBefore(a, b)
           /\ StillQueued(a)
           /\ disp.pc = "send"
           /\ disp.job = b)
              => ~DispatchSent]_vars

\* C21: when sending assign_job to the selected worker fails, the worker is
\* idle again in the registry and in the store, the job is queued again with
\* no assigned worker, the job id is back at the head of the queue, ahead of
\* every job that was behind it, and the dispatcher run ends without another
\* assignment.
C21_SendFailureReverts ==
    [][DispatchSendFailed
          => /\ workers_ws'.e[disp.worker].status = "idle"
             /\ db_workers'.rows[disp.worker].status = "idle"
             /\ db_jobs'[disp.job].status = "queued"
             /\ db_jobs'[disp.job].worker_id = NoWorker
             /\ job_queue' = <<disp.job>> \o job_queue
             /\ disp'.pc = "idle"]_vars

\* ----------------------------------------------------- stop and restart
\* The coordinator process is stopped and started again: the module-level
\* queue, registry and lock are created empty, every connection is new, and
\* startup only opens the store, which is left as it was.
Restart ==
    /\ job_queue' = <<>>
    /\ workers_ws' = [e |-> [w \in WorkerIds |-> NoEntry], order |-> <<>>]
    /\ conn' = [c \in Conns |-> NewConn]
    /\ disp' = DispIdle
    /\ submit_wait' = 0
    /\ sent' = [j \in JobIds |-> NoConn]
    /\ session' = [w \in WorkerIds |-> NoConn]
    /\ enq' = <<>>
    /\ UNCHANGED <<user_credits, user_auth, db_workers, db_jobs, clock, dlog,
                   http, settled, wk, selected, used>>

RestartNext ==
    \/ Submit
    \/ Hello
    \/ DispatchEnter
    \/ DispatchSent
    \/ Restart
    \/ Watchdog

RestartSpec == Init /\ [][RestartNext]_vars

\* The in-memory state of a coordinator that has just been started.
FreshlyStarted ==
    /\ job_queue = <<>>
    /\ workers_ws.order = <<>>
    /\ disp = DispIdle
    /\ submit_wait = 0
    /\ \A c \in Conns : conn[c] = NewConn

\* C22: after a stop and restart with the store intact, one watchdog pass
\* leaves every job that was queued, assigned or running in status queued and
\* in the job queue, and every balance as it was before the stop.
C22_RestartRecovers ==
    [][(FreshlyStarted /\ Watchdog)
          => /\ \A j \in JobRows :
                    ~Terminal(db_jobs[j].status)
                        => /\ db_jobs'[j].status = "queued"
                           /\ InSeq(job_queue', j)
             /\ user_credits' = user_credits]_vars

\* The worker rows stored with owner o and token t.
WorkersOf(o, t) ==
    {x \in WorkerIds : /\ db_workers.rows[x].exists
                       /\ db_workers.rows[x].owner_id = o
                       /\ db_workers.rows[x].auth_token = t}

C24_TwoWorkersSameUser ==
    [][\A c \in Conns, w \in WorkerIds, o \in Owners, t \in HelloTokens :
          (/\ o # NoOwner /\ t # NoToken
           /\ db_verify_user_auth(user_auth, o, t)
           /\ HelloAccepted(c, w, o, t))
              => /\ conn'[c].worker_id = w
                 /\ db_workers'.rows[w].exists
                 /\ workers_ws'.e[w].ws = c
                 /\ \A x \in WorkerIds \ {w} :
                        Registered(x) => workers_ws'.e[x] = workers_ws.e[x]]_vars

\* No handler is inside submit, hello or job_result handling or in dispatch().
HandlersFinished ==
    /\ disp = DispIdle
    /\ submit_wait = 0
    /\ \A c \in Conns : conn[c].pc \in {"recv", "done"}

\* A registered worker that is idle, can execute, is not restricted and whose
\* session is open.
EligibleIdle(w) ==
    /\ Registered(w)
    /\ workers_ws.e[w].status = "idle"
    /\ can_execute(workers_ws.e[w].caps)
    /\ ~Restricted(w)
    /\ conn[workers_ws.e[w].ws].open

\* C25: dispatch() is run on job submission, successful hello and job_result,
\* so that once these handlers have finished the job at the head of the
\* queue is never queued while a registered eligible worker is idle.
C25_NoIdleWhileQueued ==
    (/\ HandlersFinished
     /\ job_queue # <<>>
     /\ Head(job_queue) \in JobRows
     /\ db_jobs[Head(job_queue)].status = "queued")
        => \A w \in WorkerIds : ~EligibleIdle(w)

\* ------------------------------------------------- POST /jobs with limits
\* limits.timeout_s as it arrives in the request body.
RawTimeouts == {-5, 0, 10, 3601}
SubmitDefaultTimeout == 60
MIN_TIMEOUT_SECONDS == 1
MAX_TIMEOUT_SECONDS == 3600

\* "timeout_seconds = limits.get('timeout_s') or 60", then int(): a missing
\* or zero value becomes the default, any other integer is taken as it is.
timeout_seconds(raw) == IF raw = 0 THEN SubmitDefaultTimeout ELSE raw

PostJobsWithLimits == \E u \in Users, raw \in RawTimeouts :
    PostJobs(u, timeout_seconds(raw))

TimeoutNext == PostJobsWithLimits \/ CallCredit

TimeoutSpec == Init /\ [][TimeoutNext]_vars

\* C26: a POST /jobs whose timeout is not an integer in 1..3600 is answered
\* with 400 before any credit is reserved, so every accepted job has a
\* timeout in 1..3600 and a reserve that was debited.
C26_InvalidTimeoutRejected ==
    [][\A u \in Users, raw \in RawTimeouts :
          PostJobs(u, timeout_seconds(raw))
              => /\ raw \notin MIN_TIMEOUT_SECONDS..MAX_TIMEOUT_SECONDS
                        => /\ http'.status = HTTP_BAD_REQUEST
                           /\ UNCHANGED <<db_jobs, job_queue>>
                           /\ ReportedBalance(user_credits', u)
                                  = ReportedBalance(user_credits, u)
                 /\ Len(db_jobs') > Len(db_jobs)
                        => /\ raw \in MIN_TIMEOUT_SECONDS..MAX_TIMEOUT_SECONDS
                           /\ db_jobs'[Len(db_jobs')].reserved > 0
                           /\ ReportedBalance(user_credits', u)
                                  = ReportedBalance(user_credits, u)
                                        - db_jobs'[Len(db_jobs')].reserved]_vars

\* ------------------------------------------------------- worker process
\* The worker side of one open session: run_worker's receive loop,
\* handle_assign_job with its background monitor, the TaskQueue and the
\* executor. Each job id is assigned to this worker once.
coordinatorState ==
    <<user_credits, user_auth, db_workers, db_jobs, job_queue, workers_ws,
      conn, disp, submit_wait, clock, dlog, sent, settled, session, used,
      selected, http, enq>>

\* TaskPriority
LOW == 1
NORMAL == 2
HIGH == 3
URGENT == 4
TaskPriority == {LOW, NORMAL, HIGH, URGENT}

TerminalTask == {"completed", "failed", "cancelled"}

\* Task(task_id, ..., priority): status PENDING, created_at the time of
\* creation (a serial number here).
Task(task_id, priority, created_at) ==
    [task_id |-> task_id, priority |-> priority, status |-> "pending",
     error |-> "", created_at |-> created_at]

\* dict[k] = v and dict.pop(k) of active_tasks and completed_tasks
DictSet(D, k, v) == [x \in DOMAIN D \cup {k} |-> IF x = k THEN v ELSE D[x]]
DictDel(D, k) == [x \in DOMAIN D \ {k} |-> D[x]]

\* Index of the first task of q with that id, 0 when there is none.
FirstWithId(q, j) ==
    LET I == {i \in 1..Len(q) : q[i].task_id = j}
    IN  IF I = {} THEN 0 ELSE CHOOSE i \in I : \A k \in I : i <= k

RemoveAt(q, i) == SubSeq(q, 1, i - 1) \o SubSeq(q, i + 1, Len(q))

\* "self.queue.sort(key=lambda t: t.priority.value, reverse=True)": a stable
\* sort, tasks of equal priority keep their order.
RECURSIVE SortFrom(_, _)
SortFrom(q, p) ==
    IF p < LOW THEN <<>>
    ELSE SelectSeq(q, LAMBDA t : t.priority = p) \o SortFrom(q, p - 1)

sort_by_priority(q) == SortFrom(q, URGENT)

\* An enqueue that appends without sorting.
enqueue_unsorted(W, task) ==
    IF Len(W.queue) >= max_queue_size THEN W
    ELSE [W EXCEPT !.queue = Append(@, [task EXCEPT !.status = "queued"])]

\* TaskQueue.enqueue: False (nothing changes) when the queue is full.
enqueue(W, task) ==
    IF Len(W.queue) >= max_queue_size THEN W
    ELSE [W EXCEPT !.queue = sort_by_priority(
                                 Append(@, [task EXCEPT !.status = "queued"]))]

\* TaskQueue.dequeue: None on the empty queue, else the first task, made
\* RUNNING and stored in active_tasks.
dequeue(W) ==
    IF W.queue = <<>> THEN [W EXCEPT !.returned = NoTask]
    ELSE LET task == [Head(W.queue) EXCEPT !.status = "running"]
         IN  [W EXCEPT !.queue = Tail(@),
                       !.active_tasks = DictSet(@, task.task_id, task),
                       !.returned = task]

mark_running(W, j) ==
    LET i == FirstWithId(W.queue, j)
    IN  IF i = 0 THEN W
        ELSE [W EXCEPT !.queue = RemoveAt(@, i),
                       !.active_tasks =
                           DictSet(@, j, [W.queue[i] EXCEPT !.status = "running"])]

mark_completed(W, j) ==
    IF j \in DOMAIN W.active_tasks
    THEN [W EXCEPT !.active_tasks = DictDel(@, j),
                   !.completed_tasks =
                       DictSet(@, j, [W.active_tasks[j] EXCEPT
                                          !.status = "completed"])]
    ELSE W

mark_failed(W, j, error) ==
    IF j \in DOMAIN W.active_tasks
    THEN [W EXCEPT !.active_tasks = DictDel(@, j),
                   !.completed_tasks =
                       DictSet(@, j, [W.active_tasks[j] EXCEPT
                                          !.status = "failed",
                                          !.error = error])]
    ELSE W

\* The cancelled task is set CANCELLED and removed from queue or
\* active_tasks; it is stored nowhere.
cancel_task(W, j) ==
    LET i == FirstWithId(W.queue, j)
    IN  IF i # 0 THEN [W EXCEPT !.queue = RemoveAt(@, i)]
        ELSE IF j \in DOMAIN W.active_tasks
        THEN [W EXCEPT !.active_tasks = DictDel(@, j)]
        ELSE W

\* TaskQueue.get_task: the task from queue, active_tasks or completed_tasks,
\* None (NoTask) otherwise.
get_task(W, j) ==
    LET i == FirstWithId(W.queue, j)
    IN  IF i # 0 THEN W.queue[i]
        ELSE IF j \in DOMAIN W.active_tasks THEN W.active_tasks[j]
        ELSE IF j \in DOMAIN W.completed_tasks THEN W.completed_tasks[j]
        ELSE NoTask

\* "assign_job" read from the socket: job_started is sent first.
RecvAssignJob == \E j \in JobIds :
    /\ wk.handling = 0
    /\ wk.job_started[j] = 0
    /\ wk' = [wk EXCEPT !.job_started[j] = @ + 1, !.handling = j]
    /\ UNCHANGED coordinatorState

\* handle_assign_job, awaited by the receive loop: create the task with
\* priority NORMAL, enqueue it and start _monitor_and_send.
handle_assign_job ==
    /\ wk.handling # 0
    /\ wk' = [enqueue(wk, Task(wk.handling, NORMAL, wk.created + 1)) EXCEPT
                  !.created = @ + 1,
                  !.monitors = @ \cup {wk.handling},
                  !.handling = 0]
    /\ UNCHANGED coordinatorState

\* process_queue: a dequeue() that returns a task; on None the loop only
\* waits.
Dequeue ==
    /\ wk.queue # <<>>
    /\ wk' = dequeue(wk)
    /\ UNCHANGED coordinatorState

\* execute_task ends: exit code 0, another exit code or an exception, or
\* the timeout.
TaskCompleted == \E j \in DOMAIN wk.active_tasks :
    wk' = mark_completed(wk, j) /\ UNCHANGED coordinatorState

TaskFailed == \E j \in DOMAIN wk.active_tasks :
    wk' = mark_failed(wk, j, "Task failed") /\ UNCHANGED coordinatorState

TaskTimedOut == \E j \in DOMAIN wk.active_tasks :
    /\ wk' = mark_failed(wk, j, "Task execution timeout")
    /\ UNCHANGED coordinatorState

CancelExecution == \E j \in JobIds :
    /\ FirstWithId(wk.queue, j) # 0 \/ j \in DOMAIN wk.active_tasks
    /\ wk' = cancel_task(wk, j)
    /\ UNCHANGED coordinatorState

\* _monitor_and_send finds the task in a final status and sends job_result;
\* while get_task returns None or a task still pending it sleeps and polls
\* again.
MonitorSend == \E j \in wk.monitors :
    /\ get_task(wk, j) # NoTask
    /\ get_task(wk, j).status \in TerminalTask
    /\ wk' = [wk EXCEPT !.job_result[j] = @ + 1, !.monitors = @ \ {j}]
    /\ UNCHANGED coordinatorState

WorkerNext ==
    \/ RecvAssignJob
    \/ handle_assign_job
    \/ Dequeue
    \/ TaskCompleted
    \/ TaskFailed
    \/ TaskTimedOut
    \/ CancelExecution
    \/ MonitorSend

\* The event loop runs the executor, every started execution ends, and a
\* monitor that can send does.
WorkerFairness ==
    /\ WF_vars(handle_assign_job)
    /\ WF_vars(Dequeue)
    /\ WF_vars(TaskCompleted \/ TaskFailed \/ TaskTimedOut)
    /\ WF_vars(MonitorSend)

WorkerSpec == Init /\ [][WorkerNext]_vars /\ WorkerFairness

\* C27: for every assign_job the worker receives it sends job_started and
\* then, while the session stays open, eventually exactly one job_result for
\* that job, whichever way the local task ends.
C27_OneResultPerAssign ==
    /\ [](\A j \in JobIds : /\ wk.job_result[j] <= wk.job_started[j]
                            /\ wk.job_result[j] <= 1)
    /\ \A j \in JobIds : (wk.job_started[j] = 1) ~> (wk.job_result[j] = 1)

\* C28: the dispatcher never sends assign_job for, nor changes the status or
\* the assigned worker of, a job whose record is missing or whose status is
\* not queued when its id is taken from the queue: a run of the dispatch
\* loop leaves every job that is not queued as it is, and the job it is
\* about to send was queued.
C28_OnlyQueuedAssigned ==
    [][(DispatchEnter \/ DispatchSent)
          => /\ \A j \in JobRows :
                    db_jobs[j].status # "queued" => db_jobs'[j] = db_jobs[j]
             /\ disp'.pc = "send"
                    => /\ disp'.job \in JobRows
                       /\ db_jobs[disp'.job].status = "queued"]_vars

\* An eligible worker: in the registry, idle, can_execute and unrestricted.
Eligible(w) ==
    /\ Registered(w)
    /\ workers_ws.e[w].status = "idle"
    /\ can_execute(workers_ws.e[w].caps)
    /\ ~Restricted(w)

\* C29: when the dispatcher finds no eligible worker for the job at the head
\* of the queue it stops, leaving the queue (contents and order), every
\* job's status and every worker's status unchanged.
C29_NoEligibleNoChange ==
    [][(/\ DispatchEnter \/ DispatchSent
        /\ job_queue # <<>>
        /\ \A w \in WorkerIds : ~Eligible(w))
          => /\ disp'.pc = "idle"
             /\ job_queue' = job_queue
             /\ \A j \in JobRows : db_jobs'[j].status = db_jobs[j].status
             /\ \A w \in WorkerIds :
                    /\ workers_ws'.e[w].status = workers_ws.e[w].status
                    /\ db_workers'.rows[w].status = db_workers.rows[w].status]_vars

\* The handler of session c has registered a worker and waits for input:
\* its next step (a frame: update_worker_last_seen; a close: unregister)
\* takes the registry mutex.
NeedsRegistry(c) == conn[c].pc = "recv" /\ conn[c].worker_id # NoWorker

\* C30: the registry mutex is not held while assign_job is being sent to a
\* worker, so a session handler that needs the registry mutex is never
\* blocked behind a network send: while a send is in flight the mutex every
\* such handler needs is free.
C30_SendOutsideRegistryMutex ==
    \A c \in Conns : (disp.pc = "send" /\ NeedsRegistry(c)) => LockFree

\* Open sessions that send frames while jobs are submitted and dispatched
\* and last-seen values grow old.
HeartbeatNext ==
    \/ Submit
    \/ Hello
    \/ Frame
    \/ DispatchEnter
    \/ DispatchSent
    \/ LastSeenStale

HeartbeatSpec == Init /\ [][HeartbeatNext]_vars

\* A frame other than hello is handled on session c.
FrameOn(c) == \E j \in JobIds :
    \/ FrameHb(c)
    \/ FrameJobStarted(c, j)
    \/ \E exit_code \in ExitCodes, duration \in Durations :
           FrameJobResult(c, j, exit_code, duration)

\* C31: every frame received on a registered session, of any type, refreshes
\* that worker's last-seen in the registry: after the frame is handled the
\* worker's entry is still there and not stale.
C31_FrameRefreshesLastSeen ==
    [][\A c \in Conns :
          (FrameOn(c) /\ Registered(conn[c].worker_id))
              => /\ Registered(conn[c].worker_id)'
                 /\ ~workers_ws'.e[conn[c].worker_id].stale]_vars

\* A frame has refreshed a last-seen that had gone stale: after the only
\* hello the threshold passed for its worker, and after the only frame the
\* worker, still holding a job, is fresh again.
C31_Witness ==
    /\ used = [frames |-> 1, hellos |-> 1, stales |-> 1]
    /\ \E w \in WorkerIds : /\ Registered(w)
                            /\ ~workers_ws.e[w].stale
                            /\ \E j \in JobRows : /\ db_jobs[j].status = "assigned"
                                                  /\ db_jobs[j].worker_id = w

\* ------------------------------------------------------ protocol faults
\* Frames that are not a message object: text that is not JSON, a binary
\* frame that is not UTF-8, JSON that is not an object.
MalformedFrames == {"text_not_json", "binary_not_utf8", "json_not_object"}

\* "msg = json.loads(raw)" followed by "msg.get('type')": the exception
\* raised, if any.
json_loads(raw) ==
    CASE raw = "text_not_json" -> "JSONDecodeError"
      [] raw = "binary_not_utf8" -> "UnicodeDecodeError"
      [] raw = "json_not_object" -> "AttributeError"
      [] OTHER -> "none"

FrameArrives(c) ==
    /\ conn[c].open /\ conn[c].pc = "recv"
    /\ used.frames < MaxFrames
    /\ used' = [used EXCEPT !.frames = @ + 1]

\* "except json.JSONDecodeError: continue"; any other exception leaves the
\* receive loop, is logged by the outer handler, and the handler goes to its
\* finally block and returns, which closes the connection.
FrameMalformed(c, raw) ==
    /\ FrameArrives(c)
    /\ conn' = IF json_loads(raw) = "JSONDecodeError" THEN conn
               ELSE [conn EXCEPT ![c].open = FALSE, ![c].close_code = 1000,
                                 ![c].pc = "exiting"]
    /\ UNCHANGED <<user_credits, user_auth, db_workers, db_jobs, job_queue,
                   workers_ws, disp, submit_wait, clock, dlog, http, sent,
                   settled, wk, enq, selected, session>>

\* A message other than hello before any hello: "if not worker_id: continue".
FrameUnauthenticated(c) ==
    /\ FrameArrives(c)
    /\ conn[c].worker_id = NoWorker
    /\ UNCHANGED <<user_credits, user_auth, db_workers, db_jobs, job_queue,
                   workers_ws, conn, disp, submit_wait, clock, dlog, http,
                   sent, settled, wk, enq, selected, session>>

Fault(c) ==
    \/ \E raw \in MalformedFrames : FrameMalformed(c, raw)
    \/ FrameUnauthenticated(c)

FrameFault == \E c \in Conns : Fault(c)

FaultNext ==
    \/ Submit
    \/ Hello
    \/ FrameFault
    \/ HandlerExit
    \/ DispatchEnter
    \/ DispatchSent
    \/ DispatchSendFailed

FaultSpec == Init /\ [][FaultNext]_vars

\* C32: an unparseable frame, and any non-hello frame received on a
\* connection that has not completed a hello, is dropped: registry, store,
\* queue and balances are unchanged, nothing is sent in reply, and the
\* connection stays open.
C32_FaultDropped ==
    [][\A c \in Conns :
          Fault(c) => /\ UNCHANGED <<workers_ws, db_workers, db_jobs, user_auth,
                                     job_queue, user_credits, sent>>
                      /\ conn'[c] = conn[c]
                      /\ conn'[c].open]_vars

\* ------------------------------------------------- TaskQueue on its own
\* The methods of TaskQueue called in any order, with tasks of any priority;
\* a task id may be used by more than one task.
CallEnqueue == \E j \in JobIds, p \in TaskPriority :
    /\ wk.created < MaxCreated
    /\ wk' = [enqueue(wk, Task(j, p, wk.created + 1)) EXCEPT !.created = @ + 1]
    /\ UNCHANGED coordinatorState

CallDequeue == wk' = dequeue(wk) /\ UNCHANGED coordinatorState

CallMarkRunning == \E j \in JobIds :
    wk' = mark_running(wk, j) /\ UNCHANGED coordinatorState

CallMarkCompleted == \E j \in JobIds :
    wk' = mark_completed(wk, j) /\ UNCHANGED coordinatorState

CallMarkFailed == \E j \in JobIds :
    wk' = mark_failed(wk, j, "Task failed") /\ UNCHANGED coordinatorState

CallCancelTask == \E j \in JobIds :
    wk' = cancel_task(wk, j) /\ UNCHANGED coordinatorState

TaskQueueNext ==
    \/ CallEnqueue
    \/ CallDequeue
    \/ CallMarkRunning
    \/ CallMarkCompleted
    \/ CallMarkFailed
    \/ CallCancelTask

TaskQueueSpec == Init /\ [][TaskQueueNext]_vars

\* C33: TaskQueue.dequeue always returns a queued task of the highest
\* priority present, and among tasks of equal priority the one enqueued
\* earliest; it returns None exactly when the queue is empty.
C33_DequeueOrder ==
    [][CallDequeue
          => IF wk.queue = <<>> THEN wk'.returned = NoTask
             ELSE /\ wk'.returned # NoTask
                  /\ \E i \in 1..Len(wk.queue) :
                         /\ wk.queue[i].status = "queued"
                         /\ wk'.returned = [wk.queue[i] EXCEPT !.status = "running"]
                  /\ \A k \in 1..Len(wk.queue) :
                         /\ wk.queue[k].priority <= wk'.returned.priority
                         /\ wk.queue[k].priority = wk'.returned.priority
                                => wk.queue[k].created_at >= wk'.returned.created_at]_vars

\* dequeue has returned a task ahead of an earlier task of lower priority
\* and of a later task of its own priority, both still queued.
C33_Witness ==
    /\ wk.returned # NoTask
    /\ wk.returned.task_id \in DOMAIN wk.active_tasks
    /\ \E i, k \in 1..Len(wk.queue) :
           /\ wk.queue[i].priority < wk.returned.priority
           /\ wk.queue[i].created_at < wk.returned.created_at
           /\ wk.queue[k].priority = wk.returned.priority
           /\ wk.queue[k].created_at > wk.returned.created_at

\* The number of places a task id occupies: entries of the queue, and the
\* keys of active_tasks and completed_tasks.
Places(W, j) ==
    Cardinality({i \in 1..Len(W.queue) : W.queue[i].task_id = j})
        + (IF j \in DOMAIN W.active_tasks THEN 1 ELSE 0)
        + (IF j \in DOMAIN W.completed_tasks THEN 1 ELSE 0)

\* C40: after any sequence of enqueue, dequeue, mark_running, mark_completed,
\* mark_failed and cancel_task, each task id is in at most one of the queue,
\* active_tasks and completed_tasks, and its status matches where it is:
\* QUEUED in the queue, RUNNING in active_tasks, COMPLETED or FAILED in
\* completed_tasks.
C40_OnePlacePerTask ==
    /\ \A j \in JobIds : Places(wk, j) <= 1
    /\ \A i \in 1..Len(wk.queue) : wk.queue[i].status = "queued"
    /\ \A j \in DOMAIN wk.active_tasks : wk.active_tasks[j].status = "running"
    /\ \A j \in DOMAIN wk.completed_tasks :
           wk.completed_tasks[j].status \in {"completed", "failed"}

\* Session c2 is a live session registered under w that is not c.
NewerSession(c, w) ==
    /\ w # NoWorker
    /\ Registered(w)
    /\ workers_ws.e[w].ws # c
    /\ conn[workers_ws.e[w].ws].open
    /\ conn[workers_ws.e[w].ws].worker_id = w

\* C34: when the session handler of a superseded or admin-disconnected
\* connection terminates, it does not remove the registry entry of, nor mark
\* offline in the store, a newer live session that has since registered
\* under the same worker id.
C34_ExitSparesNewerSession ==
    [][\A c \in Conns :
          (/\ HandlerExit
           /\ conn[c].pc # "done" /\ conn'[c].pc = "done"
           /\ NewerSession(c, conn[c].worker_id))
              => /\ Registered(conn[c].worker_id)'
                 /\ workers_ws'.e[conn[c].worker_id] = workers_ws.e[conn[c].worker_id]
                 /\ db_workers'.rows[conn[c].worker_id].status
                        = db_workers.rows[conn[c].worker_id].status]_vars

\* ------------------------------------------------ submit: failing dispatch
\* The try block of submit_job also holds "await job_queue.put(job_id)" and
\* "await dispatch()". Here the first store write of the dispatch loop,
\* db_set_worker_status(idle_id, "busy"), raises after the job was written
\* and enqueued, the head of the queue taken and the registry entry set busy:
\* the except branch credits the reserve back and answers
\* HTTP_INTERNAL_ERROR.
SubmitFailedInDispatch(u, t) ==
    LET reserved == get_max_reserve(t)
        L1 == ensure_user(user_credits, u, DEFAULT_INITIAL_BALANCE)
        d == deduct(L1, u, reserved)
        J == db_create_job(db_jobs, u, reserved)
        Q == DropMissing(Append(job_queue, Len(db_jobs) + 1), J)
        idle == FirstIdle(workers_ws)
    IN  /\ Len(db_jobs) < MaxJobs
        /\ ~(get_balance(L1, u) < reserved)
        /\ d.ok
        /\ LockFree
        /\ idle # NoWorker
        /\ db_jobs' = J
        /\ job_queue' = Tail(Q)
        /\ workers_ws' = [workers_ws EXCEPT !.e[idle].status = "busy"]
        /\ user_credits' = credit(d.L, u, reserved)
        /\ enq' = Enqueued(enq, Len(db_jobs) + 1)
        /\ UNCHANGED <<user_auth, db_workers, conn, disp, submit_wait, clock,
                       sent, settled, wk, selected, session, used>>

PostJobsFailedInDispatch(u, t) ==
    /\ SubmitFailedInDispatch(u, t)
    /\ dlog' = <<>>
    /\ http' = [user |-> u, status |-> HTTP_INTERNAL_ERROR]

CallSubmit == \E u \in Submitters, t \in Timeouts :
    PostJobs(u, t) \/ PostJobsFailedInDispatch(u, t)

RefundNext ==
    \/ CallSubmit
    \/ Hello
    \/ DispatchEnter
    \/ DispatchSent

RefundSpec == Init /\ [][RefundNext]_vars

RECURSIVE ReservedBy(_, _)
ReservedBy(tbl, u) ==
    IF tbl = <<>> THEN 0
    ELSE (IF Head(tbl).user_id = u THEN Head(tbl).reserved ELSE 0)
             + ReservedBy(Tail(tbl), u)

\* C35: whenever a submit refunds the reserve and ends with an error, no job
\* from that request remains in the store or in the queue; a job that is
\* persisted, queued or dispatched always has its reserve still debited from
\* the submitter (no job is settled in RefundSpec, so the submitter's balance
\* is the initial balance less the reserves of the submitter's jobs).
C35_RefundLeavesNoJob ==
    /\ [][\A u \in Submitters, t \in Timeouts :
             (PostJobsFailed(u, t) \/ PostJobsFailedInDispatch(u, t))
                 => /\ db_jobs' = db_jobs
                    /\ job_queue' = job_queue]_vars
    /\ [](\A u \in Submitters :
             u \in user_credits.rows
                 => user_credits.bal[u]
                        = DEFAULT_INITIAL_BALANCE - ReservedBy(db_jobs, u))

\* C36: every session registered with a non-empty owner that has stored
\* credentials was established by a hello carrying that owner's stored
\* token: a hello that names such an owner with an empty or missing token is
\* never registered as that owner's worker and never overwrites that owner's
\* worker row.
C36_TokenlessNotRegistered ==
    [][\A c \in Conns, w \in WorkerIds, o \in Owners \ {NoOwner} :
          (HandleHello(c, w, o, NoToken) /\ user_auth[o] # NoToken)
              => /\ \A x \in WorkerIds :
                        workers_ws'.e[x] # workers_ws.e[x]
                            => workers_ws'.e[x].owner_id # o
                 /\ \A x \in WorkerIds :
                        db_workers'.rows[x] # db_workers.rows[x]
                            => /\ db_workers.rows[x].owner_id # o
                               /\ db_workers'.rows[x].owner_id # o]_vars

\* C37: a job_result or job_started frame received on worker W's session
\* changes the status of job J only if J's assigned worker id is W, and a
\* job_result marks W idle only if the job it names was assigned to W (a
\* busy W stays busy and is given no new job by the dispatch that follows).
C37_OnlyOwnJobs ==
    [][\A c \in Conns, j \in JobIds :
          /\ (FrameJobStarted(c, j)
              \/ \E exit_code \in ExitCodes, duration \in Durations :
                     FrameJobResult(c, j, exit_code, duration))
                => (db_jobs'[j].status # db_jobs[j].status
                        => db_jobs[j].worker_id = conn[c].worker_id)
          /\ (/\ \E exit_code \in ExitCodes, duration \in Durations :
                     FrameJobResult(c, j, exit_code, duration)
              /\ Registered(conn[c].worker_id)
              /\ workers_ws.e[conn[c].worker_id].status = "busy"
              /\ db_jobs[j].worker_id # conn[c].worker_id)
                => /\ workers_ws'.e[conn[c].worker_id].status = "busy"
                   /\ ~(disp'.pc = "send" /\ disp'.worker = conn[c].worker_id)]_vars

\* C38: for every job, between two assign_job sends for that job there is a
\* transition of the job back to queued: dispatch starts a send of job j only
\* when no earlier assign_job for j is outstanding (j went back to queued
\* since its last send), so at most one worker holds j as an outstanding
\* assignment.
C38_OneOutstandingAssignment ==
    [][\A j \in JobIds :
          (disp'.pc = "send" /\ disp'.job = j /\ ~(disp.pc = "send" /\ disp.job = j))
              => sent[j] = NoConn]_vars

\* C39: in every reachable state each job id occurs at most once in the job
\* queue.
C39_QueueHasNoDuplicates ==
    \A j \in JobIds :
        Cardinality({i \in DOMAIN job_queue : job_queue[i] = j}) <= 1

====
